---------------------------- MODULE Spec2Model ----------------------------
(***************************************************************************)
(* Model of surch (philbooth/surch): an in-process n-gram index.           *)
(*                                                                         *)
(* Characters are Unicode code points (naturals); a string is a sequence   *)
(* of code points.  JavaScript arrays are 0-based: a 0-based index p of    *)
(* the source is element p + 1 of the sequence here.  The 0-based          *)
(* `index` and `position` fields keep their source values.                 *)
(***************************************************************************)
EXTENDS Integers, Sequences, FiniteSets, TLC

VARIABLES
    strict,         \* option `strict`, fixed at create()
    caseSensitive,  \* option `caseSensitive`, fixed at create()
    coercing,       \* TRUE when create() was given coerceId: id => id.str
    FULL_STRINGS,   \* Map: documentId -> original string
    N_GRAMS,        \* Map: n-gram substring -> array of {documentId, position, index}
    last,           \* outcome of the last call made on the index
    history         \* what the calls made so far did to each id, where recorded

vars == <<strict, caseSensitive, coercing, FULL_STRINGS, N_GRAMS, last, history>>

-----------------------------------------------------------------------------
(* Options and character classes                                           *)

\* default of the option `minLength`
minLength == 3

\* the id `null`, refused by assert.assigned
NullId == -1

\* largest document id handed to the index (ids are 0..MaxId)
MaxId == 1

Ids == 0 .. MaxId

\* An object id { str: ... }: two objects with the same str are two ids
\* (=== compares references) unless coerceId maps them to their str.  The
\* object of reference ref >= 1 and field str is a number above MaxId, so it
\* is none of the plain ids 0..MaxId.
RawObject(ref, str) == ref * (MaxId + 1) + str

\* id.str of an object id
strOf(id) == id % (MaxId + 1)

\* a bug the index could have: an id used as it is given
coerceIdOmitted(id) == id

\* the option `coerceId`: id => id by default, id => id.str when given
coerceId(id) == IF coercing THEN strOf(id) ELSE id

INSIGNIFICANT_CHARACTERS ==
    (0 .. 47) \cup (58 .. 64) \cup (91 .. 96) \cup (123 .. 191) \cup {215} \cup {247}

\* ' ', ' ', '\t', '\v', '\f', '\r', '\n'
WHITESPACE == {32, 160, 9, 11, 12, 13, 10}

\* String.prototype.toLowerCase on one code point, for Basic Latin and Latin-1
toLowerCase(c) ==
    IF c \in 65 .. 90 THEN c + 32
    ELSE IF c \in (192 .. 222) \ {215} THEN c + 32
    ELSE c

\* String.prototype.normalize('NFKC') followed by Array.from, for the code
\* points used here: U+00A0 maps to U+0020, and n / N followed by the
\* combining tilde U+0303 compose to U+00F1 / U+00D1.
RECURSIVE NFKC(_)
NFKC(s) ==
    IF s = <<>> THEN <<>>
    ELSE IF Len(s) >= 2 /\ s[2] = 771 /\ s[1] \in {110, 78}
         THEN <<(IF s[1] = 110 THEN 241 ELSE 209)>> \o NFKC(Tail(Tail(s)))
         ELSE <<(IF s[1] = 160 THEN 32 ELSE s[1])>> \o NFKC(Tail(s))

\* a bug normalise could have: the character returned as it is
normaliseLowerOmitted(cs, c) == c

normaliseLower(cs, c) == IF cs THEN c ELSE toLowerCase(c)

normalise(c) == normaliseLower(caseSensitive, c)

-----------------------------------------------------------------------------
(* split: the n-gram splitter                                              *)

\* The while loop of split: grows the window that starts at `position`.
\* Returns [ok |-> TRUE, substring |-> ...] when j reaches minLength and
\* [ok |-> FALSE] when the window meets the end of the string or, outside
\* strict mode, a whitespace character (the branch that pops the unit).
RECURSIVE growWindowFrom(_, _, _, _, _, _, _)
growWindowFrom(st, cs, characters, position, j, substringSkipCount, substring) ==
    IF ~(j < minLength) THEN [ok |-> TRUE, substring |-> substring]
    ELSE IF position + j + substringSkipCount < Len(characters)
         THEN LET character ==
                      normaliseLower(cs, characters[position + j + substringSkipCount + 1])
              IN  IF st \/ character \notin WHITESPACE
                  THEN IF character \in INSIGNIFICANT_CHARACTERS
                       THEN growWindowFrom(st, cs, characters, position, j,
                                           substringSkipCount + 1, substring)
                       ELSE growWindowFrom(st, cs, characters, position, j + 1,
                                           substringSkipCount,
                                           Append(substring, character))
                  ELSE [ok |-> FALSE, substring |-> <<>>]
         ELSE [ok |-> FALSE, substring |-> <<>>]

\* a bug the loop could have: whitespace ends the window in strict mode too
growWindowStoppingAtWhitespace(st, cs, characters, position, j, substringSkipCount, substring) ==
    growWindowFrom(FALSE, cs, characters, position, j, substringSkipCount, substring)

\* a bug the loop could have: whitespace never ends the window
growWindowThroughWhitespace(st, cs, characters, position, j, substringSkipCount, substring) ==
    growWindowFrom(TRUE, cs, characters, position, j, substringSkipCount, substring)

\* a bug the loop could have: it counts the first character twice
growWindowCountingTwice(st, cs, characters, position, j, substringSkipCount, substring) ==
    growWindowFrom(st, cs, characters, position, j + 1, substringSkipCount, substring)

growWindow(st, cs, characters, position, j, substringSkipCount, substring) ==
    growWindowFrom(st, cs, characters, position, j, substringSkipCount, substring)

tokenStartAt(st, characters, position) ==
    ~st /\ position >= 1 /\ characters[position] \in WHITESPACE

RECURSIVE splitFrom(_, _, _, _, _, _)
splitFrom(st, cs, characters, index, skipCount, substrings) ==
    IF index + skipCount > Len(characters) - minLength THEN substrings
    ELSE LET position  == index + skipCount
             character == normaliseLower(cs, characters[position + 1])
         IN  IF character \in INSIGNIFICANT_CHARACTERS
             THEN splitFrom(st, cs, characters, index, skipCount + 1, substrings)
             ELSE LET w == growWindow(st, cs, characters, position, 1, 0, <<character>>)
                  IN  IF w.ok
                      THEN splitFrom(st, cs, characters, index + 1, skipCount,
                               Append(substrings,
                                   [substring  |-> w.substring,
                                    index      |-> index,
                                    position   |-> position,
                                    tokenStart |-> tokenStartAt(st, characters, position)]))
                      ELSE splitFrom(st, cs, characters, index, skipCount + 1, substrings)

splitWith(st, cs, characters) == splitFrom(st, cs, characters, 0, 0, <<>>)

split(characters) == splitWith(strict, caseSensitive, characters)

-----------------------------------------------------------------------------
(* The index: add, delete, update, clear                                   *)

\* N_GRAMS.get(substring) || []
bucket(ng, substring) == IF substring \in DOMAIN ng THEN ng[substring] ELSE <<>>

\* One callback of split(characters).forEach in add: push onto the bucket,
\* or create the bucket.
pushEntry(ng, documentId, item) ==
    LET entry == [documentId |-> documentId,
                  position   |-> item.position,
                  index      |-> item.index]
    IN  [k \in DOMAIN ng \cup {item.substring} |->
            IF k = item.substring THEN Append(bucket(ng, k), entry) ELSE ng[k]]

RECURSIVE pushAll(_, _, _)
pushAll(ng, documentId, items) ==
    IF items = <<>> THEN ng
    ELSE pushAll(pushEntry(ng, documentId, Head(items)), documentId, Tail(items))

\* A document as the index reads it: document[idKey] and document[targetKey].
\* kind is "text" (a string), "object" (a truthy non-string) or "absent"
\* (undefined or the empty string).
Doc(id, kind, value) == [id |-> id, kind |-> kind, value |-> value]

\* a bug add could have: the length test made on the string as given, before
\* it is normalized
belowMinLengthAsGiven(value) == Len(value) < minLength

\* characters.length < minLength, characters being the normalized value
belowMinLength(value) == Len(NFKC(value)) < minLength

\* a bug add could have: no test for an id that is already stored
hasDocumentNever(fs, documentId) == FALSE

\* FULL_STRINGS.has(documentId)
hasDocument(fs, documentId) == documentId \in DOMAIN fs

\* add(document), on the maps fs (FULL_STRINGS) and ng (N_GRAMS).
addDoc(st, cs, fs, ng, document) ==
    LET value      == document.value
        documentId == coerceId(document.id)
        same       == [fs |-> fs, ng |-> ng]
    IN  IF document.kind = "absent" \/ (document.kind = "text" /\ value = <<>>)
        THEN same @@ [error |-> "none", effect |-> "novalue"]
        ELSE IF document.kind # "text"
        THEN same @@ [error |-> "InvalidProperty", effect |-> "threw"]
        ELSE IF documentId = NullId
        THEN same @@ [error |-> "InvalidDocumentId", effect |-> "threw"]
        ELSE IF hasDocument(fs, documentId)
        THEN same @@ [error |-> "DuplicateDocumentId", effect |-> "threw"]
        ELSE LET characters == NFKC(value)
             IN  IF belowMinLength(value)
                 THEN same @@ [error |-> "none", effect |-> "short"]
                 ELSE [fs     |-> [k \in DOMAIN fs \cup {documentId} |->
                                      IF k = documentId THEN value ELSE fs[k]],
                       ng     |-> pushAll(ng, documentId, splitWith(st, cs, characters)),
                       error  |-> "none",
                       effect |-> "stored"]

\* a bug delete could have: the comparison of the filter inverted
withoutDocumentInverted(indices, documentId) ==
    SelectSeq(indices, LAMBDA index : index.documentId = documentId)

\* indices.filter(index => index.documentId !== documentId)
withoutDocument(indices, documentId) ==
    SelectSeq(indices, LAMBDA index : index.documentId # documentId)

\* a bug delete could have: a bucket left in the map once it is empty
purgeKeepEmpty(ng, documentId) ==
    [k \in DOMAIN ng |-> withoutDocument(ng[k], documentId)]

\* a bug delete could have: the n-grams of the document left in place
purgeNothing(ng, documentId) == ng

\* The N_GRAMS.forEach of delete: filter every bucket, drop the empty ones.
purge(ng, documentId) ==
    LET kept == {k \in DOMAIN ng : withoutDocument(ng[k], documentId) # <<>>}
    IN  [k \in kept |-> withoutDocument(ng[k], documentId)]

\* a bug delete could have: no error for an id that is not indexed
deleteDocLenient(fs, ng, rawId) ==
    [fs     |-> [k \in DOMAIN fs \ {coerceId(rawId)} |-> fs[k]],
     ng     |-> purge(ng, coerceId(rawId)),
     error  |-> "none",
     effect |-> "deleted"]

\* delete(documentId)
deleteDoc(fs, ng, rawId) ==
    LET documentId == coerceId(rawId)
    IN  IF documentId \notin DOMAIN fs
        THEN [fs |-> fs, ng |-> ng, error |-> "UnknownDocumentId", effect |-> "threw"]
        ELSE [fs     |-> [k \in DOMAIN fs \ {documentId} |-> fs[k]],
              ng     |-> purge(ng, documentId),
              error  |-> "none",
              effect |-> "deleted"]

\* a bug update could have: adding the document although delete threw
updateDocUpsert(st, cs, fs, ng, document) ==
    addDoc(st, cs, deleteDoc(fs, ng, document.id).fs,
           deleteDoc(fs, ng, document.id).ng, document)

\* a bug update could have: the deleted document put back when add throws
updateDocAtomic(st, cs, fs, ng, document) ==
    LET d == deleteDoc(fs, ng, document.id)
        a == addDoc(st, cs, d.fs, d.ng, document)
    IN  IF d.error # "none" THEN d
        ELSE IF a.error # "none"
        THEN [fs |-> fs, ng |-> ng, error |-> a.error, effect |-> a.effect]
        ELSE a

\* update(document): this.delete(document[idKey]); this.add(document)
updateDoc(st, cs, fs, ng, document) ==
    LET d == deleteDoc(fs, ng, document.id)
    IN  IF d.error # "none" THEN d
        ELSE addDoc(st, cs, d.fs, d.ng, document)

-----------------------------------------------------------------------------
(* search: filter, dedupe, sort                                            *)

\* JavaScript truthiness of a document id (a number or null): `if (documentId)`
truthy(documentId) == documentId # NullId /\ documentId # 0

\* The adjacency test of filter: some match of the current subquery is in the
\* candidate's document, i n-grams after the candidate.
adjacent(matches, candidate, i) ==
    \E k \in 1 .. Len(matches) :
        /\ matches[k].documentId = candidate.documentId
        /\ matches[k].index = candidate.index + i

\* candidates.filter(candidate => matches.some(...))
keepAdjacent(candidates, matches, i) ==
    SelectSeq(candidates, LAMBDA candidate : adjacent(matches, candidate, i))

\* The first pass (i = 0) of a run of filter: the candidates it starts from.
firstCandidates(matches, documentId) ==
    IF truthy(documentId)
    THEN SelectSeq(matches, LAMBDA match : match.documentId = documentId)
    ELSE matches

\* What the loop of filter returns once subqueries is empty.
filterDone(results, candidates) == results \o candidates

\* The for loop of filter(subqueries, documentId, results), entered with at
\* least one subquery; i and candidates are the loop's variables.  The
\* recursive call of the source (a subquery with tokenStart set) restarts the
\* loop at i = 0 with the first candidate's documentId.
RECURSIVE filterLoop(_, _, _, _, _, _)
filterLoop(ng, subqueries, i, candidates, documentId, results) ==
    IF subqueries = <<>> THEN filterDone(results, candidates)
    ELSE LET subquery == Head(subqueries)
             matches  == bucket(ng, subquery.substring)
         IN  IF i > 0
             THEN IF candidates = <<>> THEN <<>>
                  ELSE IF subquery.tokenStart
                  THEN filterLoop(ng, subqueries, 0, <<>>,
                                  candidates[1].documentId, results \o candidates)
                  ELSE filterLoop(ng, Tail(subqueries), i + 1,
                                  keepAdjacent(candidates, matches, i),
                                  documentId, results)
             ELSE filterLoop(ng, Tail(subqueries), i + 1,
                             firstCandidates(matches, documentId),
                             documentId, results)

\* filter(subqueries) as search calls it, for a non-empty list of subqueries.
filter(ng, subqueries) == filterLoop(ng, subqueries, 0, <<>>, NullId, <<>>)

\* Math.round(a / b * 100); Math.round rounds halves up.  Exact arithmetic:
\* it agrees with the double arithmetic of the source for every pair of
\* lengths the inputs below can produce (all at most 8).
roundedRatio(a, b) == (200 * a + b) \div (2 * b)

\* score of one raw match, as dedupe computes it
matchScore(characters, match) == roundedRatio(Len(characters), Len(NFKC(match)))

\* ids.get(documentId): the place of the document's result in deduped, 0 if none
RECURSIVE placeOf(_, _, _)
placeOf(deduped, documentId, k) ==
    IF k > Len(deduped) THEN 0
    ELSE IF deduped[k].id = documentId THEN k
    ELSE placeOf(deduped, documentId, k + 1)

\* a bug dedupe could have: the scores summed outside strict mode too
dedupeSumming(st, fs, characters, deduped, result) ==
    LET at == placeOf(deduped, result.documentId, 1)
    IN  IF at # 0
        THEN [deduped EXCEPT ![at] =
                 [@ EXCEPT !.indices = Append(@, result.position),
                           !.score   = @ + matchScore(characters, fs[result.documentId])]]
        ELSE Append(deduped, [id      |-> result.documentId,
                              indices |-> <<result.position>>,
                              match   |-> fs[result.documentId],
                              score   |-> matchScore(characters, fs[result.documentId])])

\* dedupe(characters, deduped, result): one step of the reduce in search
dedupe(st, fs, characters, deduped, result) ==
    LET documentId == result.documentId
        position   == result.position
        match      == fs[documentId]
        score      == matchScore(characters, match)
        at         == placeOf(deduped, documentId, 1)
    IN  IF at # 0
        THEN [deduped EXCEPT ![at] =
                 [@ EXCEPT !.indices = Append(@, position),
                           !.score   = IF st THEN @ + score ELSE @]]
        ELSE Append(deduped, [id      |-> documentId,
                              indices |-> <<position>>,
                              match   |-> match,
                              score   |-> score])

RECURSIVE dedupeAll(_, _, _, _, _)
dedupeAll(st, fs, characters, deduped, matches) ==
    IF matches = <<>> THEN deduped
    ELSE dedupeAll(st, fs, characters,
                   dedupe(st, fs, characters, deduped, Head(matches)),
                   Tail(matches))

\* The comparator handed to sort.
compare(lhs, rhs) ==
    IF lhs.score = rhs.score
    THEN lhs.indices[1] - rhs.indices[1]
    ELSE rhs.score - lhs.score

\* Array.prototype.sort with that comparator: a stable sort, here by insertion.
RECURSIVE insertSorted(_, _)
insertSorted(sorted, x) ==
    IF sorted = <<>> THEN <<x>>
    ELSE IF compare(Head(sorted), x) <= 0
         THEN <<Head(sorted)>> \o insertSorted(Tail(sorted), x)
         ELSE <<x>> \o sorted

RECURSIVE sortFrom(_, _)
sortFrom(sorted, rest) ==
    IF rest = <<>> THEN sorted
    ELSE sortFrom(insertSorted(sorted, Head(rest)), Tail(rest))

\* a bug search could have: the results left in the order dedupe made them
sortOmitted(results) == results

sort(results) == sortFrom(<<>>, results)

\* A query as search receives it: kind is "text" or "object" (not a string).
Query(kind, value) == [kind |-> kind, value |-> value]

\* a bug search could have: the length test made on the query as given,
\* before it is normalized
shortQueryAsGiven(value) == Len(value) < minLength

\* ! (characters.length >= minLength), characters being the normalized query
shortQuery(value) == Len(NFKC(value)) < minLength

\* search(query).  With no subquery at all, filter returns
\* results.concat(candidates) with candidates still undefined, and dedupe
\* throws a TypeError on destructuring that undefined element.
searchIndex(st, cs, fs, ng, query) ==
    IF query.kind # "text"
    THEN [error |-> "InvalidArgument", results |-> <<>>]
    ELSE LET characters == NFKC(query.value)
         IN  IF shortQuery(query.value)
             THEN [error |-> "InvalidArgument", results |-> <<>>]
             ELSE LET subqueries == splitWith(st, cs, characters)
                  IN  IF subqueries = <<>>
                      THEN [error |-> "TypeError", results |-> <<>>]
                      ELSE [error   |-> "none",
                            results |-> sort(dedupeAll(st, fs, characters, <<>>,
                                                       filter(ng, subqueries)))]

-----------------------------------------------------------------------------
(* Inputs                                                                  *)

\* Code points: t 116, h 104, e 101, n 110, s 115, T 84, H 72, E 69,
\* space 32, apostrophe 39, combining tilde 771 (U+0303), n-tilde 241.

\* Values that are indexed (normalized length >= minLength):
\*   "the", "The hen", "the hens", "then", "th'en",
\*   "hen" + U+0303 (4 code points, 3 once normalized), "t h" (no n-gram),
\*   "thethe" (the same n-gram twice)
LongValues ==
    { <<116, 104, 101>>,
      <<84, 104, 101, 32, 104, 101, 110>>,
      <<116, 104, 101, 32, 104, 101, 110, 115>>,
      <<116, 104, 101, 110>>,
      <<116, 104, 39, 101, 110>>,
      <<104, 101, 110, 771>>,
      <<116, 32, 104>>,
      <<116, 104, 101, 116, 104, 101>> }

\* Values below minLength once normalized: "he", and "en" + U+0303 (3 code
\* points, 2 once normalized)
ShortValues ==
    { <<104, 101>>,
      <<101, 110, 771>> }

TextValues == LongValues \cup ShortValues

\* The documents handed to add and update.
Documents ==
    {Doc(id, "text", v) : id \in Ids, v \in TextValues}
        \cup {Doc(id, "object", <<>>) : id \in Ids}
        \cup {Doc(id, "absent", <<>>) : id \in Ids}
        \cup {Doc(NullId, "text", <<116, 104, 101>>)}

\* Query strings: "the", "hen", "then", "the hen", "the hens", "he hen",
\* "th'e", "THE", "hen" + U+0303, "t h" (no n-gram), "he" (too short),
\* "en" + U+0303 (too short once normalized), "the 'hen"
QueryValues ==
    { <<116, 104, 101>>,
      <<104, 101, 110>>,
      <<116, 104, 101, 110>>,
      <<116, 104, 101, 32, 104, 101, 110>>,
      <<116, 104, 101, 32, 104, 101, 110, 115>>,
      <<104, 101, 32, 104, 101, 110>>,
      <<116, 104, 39, 101>>,
      <<84, 72, 69>>,
      <<104, 101, 110, 771>>,
      <<116, 32, 104>>,
      <<104, 101>>,
      <<101, 110, 771>>,
      <<116, 104, 101, 32, 39, 104, 101, 110>> }

Queries == {Query("text", q) : q \in QueryValues} \cup {Query("object", <<>>)}

-----------------------------------------------------------------------------
(* The state machine                                                       *)

NoCall ==
    [op |-> "create", error |-> "none", effect |-> "none", id |-> NullId,
     query |-> <<>>, results |-> <<>>]

Called(op, r, id) ==
    [op |-> op, error |-> r.error, effect |-> r.effect, id |-> id,
     query |-> <<>>, results |-> <<>>]

\* Nothing recorded: no id has been given a value, none has been added.
\* carried[id] is the text of at least minLength normalized characters that
\* the last successful add or update for id carried (<<>> when it carried none),
\* kept[id] the same with the adds of no value left out, and order lists the
\* ids in the order their documents were stored; a delete (also the one of
\* update) and clear erase what they remove.
NoHistory ==
    [carried |-> [id \in Ids |-> <<>>],
     kept    |-> [id \in Ids |-> <<>>],
     order   |-> <<>>]

\* create(targetKey, options): both maps start empty.
Init ==
    /\ strict \in BOOLEAN
    /\ caseSensitive \in BOOLEAN
    /\ coercing = FALSE
    /\ FULL_STRINGS = <<>>
    /\ N_GRAMS = <<>>
    /\ last = NoCall
    /\ history = NoHistory

Add(document) ==
    LET r == addDoc(strict, caseSensitive, FULL_STRINGS, N_GRAMS, document)
    IN  /\ FULL_STRINGS' = r.fs
        /\ N_GRAMS' = r.ng
        /\ last' = Called("add", r, coerceId(document.id))
        /\ UNCHANGED <<strict, caseSensitive, coercing, history>>

Delete(documentId) ==
    LET r == deleteDoc(FULL_STRINGS, N_GRAMS, documentId)
    IN  /\ FULL_STRINGS' = r.fs
        /\ N_GRAMS' = r.ng
        /\ last' = Called("delete", r, coerceId(documentId))
        /\ UNCHANGED <<strict, caseSensitive, coercing, history>>

Update(document) ==
    LET r == updateDoc(strict, caseSensitive, FULL_STRINGS, N_GRAMS, document)
    IN  /\ FULL_STRINGS' = r.fs
        /\ N_GRAMS' = r.ng
        /\ last' = Called("update", r, coerceId(document.id))
        /\ UNCHANGED <<strict, caseSensitive, coercing, history>>

Clear ==
    /\ FULL_STRINGS' = <<>>
    /\ N_GRAMS' = <<>>
    /\ last' = [NoCall EXCEPT !.op = "clear", !.effect = "cleared"]
    /\ UNCHANGED <<strict, caseSensitive, coercing, history>>

\* a bug search could have: filter working on the bucket itself
\* (candidates = matches) and shifting it like its subqueries
SearchConsuming(query) ==
    LET r    == searchIndex(strict, caseSensitive, FULL_STRINGS, N_GRAMS, query)
        subs == IF query.kind = "text"
                THEN splitWith(strict, caseSensitive, NFKC(query.value))
                ELSE <<>>
    IN  /\ last' = [op |-> "search", error |-> r.error, effect |-> "none",
                    id |-> NullId, query |-> query.value, results |-> r.results]
        /\ N_GRAMS' = [k \in DOMAIN N_GRAMS |->
                          IF subs # <<>> /\ k = subs[1].substring
                          THEN Tail(N_GRAMS[k]) ELSE N_GRAMS[k]]
        /\ UNCHANGED <<strict, caseSensitive, coercing, FULL_STRINGS, history>>

Search(query) ==
    LET r == searchIndex(strict, caseSensitive, FULL_STRINGS, N_GRAMS, query)
    IN  /\ last' = [op |-> "search", error |-> r.error, effect |-> "none",
                    id |-> NullId, query |-> query.value, results |-> r.results]
        /\ UNCHANGED <<strict, caseSensitive, coercing, FULL_STRINGS, N_GRAMS, history>>

Next ==
    \/ \E document \in Documents : Add(document)
    \/ \E documentId \in Ids \cup {NullId} : Delete(documentId)
    \/ \E document \in Documents : Update(document)
    \/ Clear
    \/ \E query \in Queries : Search(query)

Spec == Init /\ [][Next]_vars

\* The index of the id coercion suite: create('foo', { coerceId: id => id.str }),
\* its ids objects, each str held by two different objects.
RawIds == {RawObject(ref, str) : ref \in {1, 2}, str \in Ids}

\* "the", "The hen", "then", and "he" (below minLength)
CoerceValues ==
    { <<116, 104, 101>>,
      <<84, 104, 101, 32, 104, 101, 110>>,
      <<116, 104, 101, 110>>,
      <<104, 101>> }

CoerceDocuments ==
    {Doc(id, "text", v) : id \in RawIds, v \in CoerceValues}
        \cup {Doc(id, "object", <<>>) : id \in RawIds}

\* "the", "hen", "the hen"
CoerceQueries ==
    {Query("text", q) : q \in { <<116, 104, 101>>,
                                <<104, 101, 110>>,
                                <<116, 104, 101, 32, 104, 101, 110>> }}

InitCoerce ==
    /\ strict = FALSE
    /\ caseSensitive = FALSE
    /\ coercing = TRUE
    /\ FULL_STRINGS = <<>>
    /\ N_GRAMS = <<>>
    /\ last = NoCall
    /\ history = NoHistory

NextCoerce ==
    \/ \E document \in CoerceDocuments : Add(document)
    \/ \E documentId \in RawIds : Delete(documentId)
    \/ \E document \in CoerceDocuments : Update(document)
    \/ Clear
    \/ \E query \in CoerceQueries : Search(query)

SpecCoerce == InitCoerce /\ [][NextCoerce]_vars

\* The index with the history of its calls recorded, on fewer values.
\* "the", "hen", "then", "hen" + U+0303 (not in normal form), and the short
\* "he" and "en" + U+0303
TrackedValues ==
    { <<116, 104, 101>>,
      <<104, 101, 110>>,
      <<116, 104, 101, 110>>,
      <<104, 101, 110, 771>>,
      <<104, 101>>,
      <<101, 110, 771>> }

TrackedDocuments ==
    {Doc(id, "text", v) : id \in Ids, v \in TrackedValues}
        \cup {Doc(id, "object", <<>>) : id \in Ids}
        \cup {Doc(id, "absent", <<>>) : id \in Ids}

\* "the", "hen", "the hen"
TrackedQueries == CoerceQueries

\* what a document carries for the history: its value when that is a text of
\* at least minLength normalized characters, <<>> when not
Carry(document) ==
    IF document.kind = "text" /\ Len(NFKC(document.value)) >= minLength
    THEN document.value
    ELSE <<>>

\* seq without id
Without(seq, id) == SelectSeq(seq, LAMBDA x : x # id)

\* the history after add(document) ended as r
afterAdd(document, r) ==
    LET id == coerceId(document.id)
    IN  IF r.error # "none" THEN history
        ELSE [carried |-> [history.carried EXCEPT ![id] = Carry(document)],
              kept    |-> IF r.effect = "novalue" THEN history.kept
                          ELSE [history.kept EXCEPT ![id] = Carry(document)],
              order   |-> IF r.effect = "stored"
                          THEN Append(history.order, id) ELSE history.order]

\* the history after delete(documentId) ended as r
afterDelete(documentId, r) ==
    LET id == coerceId(documentId)
    IN  IF r.error # "none" THEN history
        ELSE [carried |-> [history.carried EXCEPT ![id] = <<>>],
              kept    |-> [history.kept EXCEPT ![id] = <<>>],
              order   |-> Without(history.order, id)]

\* the history after update(document) ended as r: that of its delete, and
\* unless update threw, of its add
afterUpdate(document, r) ==
    LET id == coerceId(document.id)
    IN  IF r.error = "UnknownDocumentId" THEN history
        ELSE IF r.error # "none"
        THEN [carried |-> [history.carried EXCEPT ![id] = <<>>],
              kept    |-> [history.kept EXCEPT ![id] = <<>>],
              order   |-> Without(history.order, id)]
        ELSE [carried |-> [history.carried EXCEPT ![id] = Carry(document)],
              kept    |-> [history.kept EXCEPT ![id] = Carry(document)],
              order   |-> IF r.effect = "stored"
                          THEN Append(Without(history.order, id), id)
                          ELSE Without(history.order, id)]

AddTracked(document) ==
    LET r == addDoc(strict, caseSensitive, FULL_STRINGS, N_GRAMS, document)
    IN  /\ FULL_STRINGS' = r.fs
        /\ N_GRAMS' = r.ng
        /\ last' = Called("add", r, coerceId(document.id))
        /\ history' = afterAdd(document, r)
        /\ UNCHANGED <<strict, caseSensitive, coercing>>

DeleteTracked(documentId) ==
    LET r == deleteDoc(FULL_STRINGS, N_GRAMS, documentId)
    IN  /\ FULL_STRINGS' = r.fs
        /\ N_GRAMS' = r.ng
        /\ last' = Called("delete", r, coerceId(documentId))
        /\ history' = afterDelete(documentId, r)
        /\ UNCHANGED <<strict, caseSensitive, coercing>>

UpdateTracked(document) ==
    LET r == updateDoc(strict, caseSensitive, FULL_STRINGS, N_GRAMS, document)
    IN  /\ FULL_STRINGS' = r.fs
        /\ N_GRAMS' = r.ng
        /\ last' = Called("update", r, coerceId(document.id))
        /\ history' = afterUpdate(document, r)
        /\ UNCHANGED <<strict, caseSensitive, coercing>>

ClearTracked ==
    /\ FULL_STRINGS' = <<>>
    /\ N_GRAMS' = <<>>
    /\ last' = [NoCall EXCEPT !.op = "clear", !.effect = "cleared"]
    /\ history' = NoHistory
    /\ UNCHANGED <<strict, caseSensitive, coercing>>

NextTracked ==
    \/ \E document \in TrackedDocuments : AddTracked(document)
    \/ \E documentId \in Ids : DeleteTracked(documentId)
    \/ \E document \in TrackedDocuments : UpdateTracked(document)
    \/ ClearTracked
    \/ \E query \in TrackedQueries : Search(query)

SpecTracked == Init /\ [][NextTracked]_vars

\* split alone, on every sequence of at most MaxLen characters drawn from
\* "a", "B", the space and the apostrophe
MaxLen == 7

Alphabet == {97, 66, 32, 39}

RECURSIVE StringsOf(_)
StringsOf(n) ==
    IF n = 0 THEN {<<>>}
    ELSE {Append(characters, c) : characters \in StringsOf(n - 1), c \in Alphabet}

Strings == UNION {StringsOf(n) : n \in 0 .. MaxLen}

InitSplit ==
    /\ strict \in BOOLEAN
    /\ caseSensitive \in BOOLEAN
    /\ coercing = FALSE
    /\ FULL_STRINGS = <<>>
    /\ N_GRAMS = <<>>
    /\ \E characters \in Strings : last = [NoCall EXCEPT !.query = characters]
    /\ history = NoHistory

Split ==
    /\ last.op = "create"
    /\ last' = [last EXCEPT !.op = "split", !.results = split(last.query)]
    /\ UNCHANGED <<strict, caseSensitive, coercing, FULL_STRINGS, N_GRAMS, history>>

NextSplit == Split

SpecSplit == InitSplit /\ [][NextSplit]_vars

-----------------------------------------------------------------------------
(* Vocabulary of the properties                                            *)

\* the last call was a search that returned a list
Returned == last.op = "search" /\ last.error = "none"

\* the normalized characters of the last query
lastCharacters == NFKC(last.query)

ResultIds == {last.results[k].id : k \in 1 .. Len(last.results)}

ResultOf(id) == last.results[CHOOSE k \in 1 .. Len(last.results) : last.results[k].id = id]

\* the whitespace-delimited tokens of a character sequence, in order
RECURSIVE TokensFrom(_, _, _)
TokensFrom(characters, k, token) ==
    IF k > Len(characters)
    THEN IF token = <<>> THEN <<>> ELSE <<token>>
    ELSE IF characters[k] \in WHITESPACE
         THEN (IF token = <<>> THEN <<>> ELSE <<token>>)
                  \o TokensFrom(characters, k + 1, <<>>)
         ELSE TokensFrom(characters, k + 1, Append(token, characters[k]))

Tokens(characters) == TokensFrom(characters, 1, <<>>)

\* the n-grams of one token taken alone
TokenGrams(token) == splitWith(FALSE, caseSensitive, token)

\* the tokens of the last query that yield at least one n-gram
GramTokens ==
    {t \in {Tokens(lastCharacters)[k] : k \in 1 .. Len(Tokens(lastCharacters))} :
        TokenGrams(t) # <<>>}

\* entry e of document id starts a run of the token's n-grams in the index:
\* the k-th n-gram of the token has an entry of the same document at
\* ordinal e.index + k - 1
StartsRun(e, token) ==
    \A k \in 1 .. Len(TokenGrams(token)) :
        \E j \in 1 .. Len(bucket(N_GRAMS, TokenGrams(token)[k].substring)) :
            LET m == bucket(N_GRAMS, TokenGrams(token)[k].substring)[j]
            IN  m.documentId = e.documentId /\ m.index = e.index + k - 1

\* the positions in document id where a run of the token's n-grams starts
RunStarts(token, id) ==
    LET first == bucket(N_GRAMS, TokenGrams(token)[1].substring)
    IN  {first[j].position : j \in {i \in 1 .. Len(first) :
            first[i].documentId = id /\ StartsRun(first[i], token)}}

TokenMatches(token, id) == RunStarts(token, id) # {}

\* the significant characters of a sequence, case-folded as configured
RECURSIVE Significant(_)
Significant(characters) ==
    IF characters = <<>> THEN <<>>
    ELSE IF normalise(Head(characters)) \in INSIGNIFICANT_CHARACTERS
         THEN Significant(Tail(characters))
         ELSE <<normalise(Head(characters))>> \o Significant(Tail(characters))

\* run occurs in whole as a contiguous block
Occurs(run, whole) ==
    \E from \in 0 .. Len(whole) - Len(run) :
        \A k \in 1 .. Len(run) : whole[from + k] = run[k]

\* the significant characters of the token occur as one run inside one
\* whitespace-delimited token of the stored value of document id
RunInOneToken(token, id) ==
    LET docTokens == Tokens(NFKC(FULL_STRINGS[id]))
    IN  \E k \in 1 .. Len(docTokens) :
            Occurs(Significant(token), Significant(docTokens[k]))

-----------------------------------------------------------------------------
(* Properties                                                              *)

\* C1: outside strict mode, search returns a document only if every token of
\* the query that yields an n-gram matches in that document.
C1_OnlyIfEveryTokenMatches ==
    (Returned /\ ~strict) =>
        \A id \in ResultIds : \A token \in GramTokens : TokenMatches(token, id)

\* C2: for every indexed document D and every query that is an exact
\* substring of D's normalized value, search returns D, with score 100 when
\* the query is the whole value and round(len(q) / len(D) * 100) otherwise.
C2_SubstringFindsDocument ==
    (last.op = "search" /\ Len(lastCharacters) >= minLength) =>
        \A id \in DOMAIN FULL_STRINGS :
            Occurs(lastCharacters, NFKC(FULL_STRINGS[id])) =>
                /\ last.error = "none"
                /\ id \in ResultIds
                /\ ResultOf(id).score =
                       IF lastCharacters = NFKC(FULL_STRINGS[id]) THEN 100
                       ELSE roundedRatio(Len(lastCharacters),
                                         Len(NFKC(FULL_STRINGS[id])))

\* C3: outside strict mode, every indexed document that matches every token
\* of a multi-token query is returned, and its indices hold the start
\* position of its match for every token.
C3_AllMatchingDocumentsWithAllIndices ==
    (Returned /\ ~strict /\ Cardinality(GramTokens) >= 2) =>
        \A id \in DOMAIN FULL_STRINGS :
            (\A token \in GramTokens : TokenMatches(token, id)) =>
                /\ id \in ResultIds
                /\ \A token \in GramTokens :
                       \E k \in 1 .. Len(ResultOf(id).indices) :
                           ResultOf(id).indices[k] \in RunStarts(token, id)

\* C4: outside strict mode, a query without whitespace matches a document
\* only if its significant characters occur as one contiguous run inside a
\* single whitespace-delimited token of the document.
C4_TokenRunInsideOneDocumentToken ==
    (Returned /\ ~strict /\ Len(Tokens(lastCharacters)) = 1) =>
        \A id \in ResultIds : RunInOneToken(Tokens(lastCharacters)[1], id)

lastUnsorted ==
    dedupeAll(strict, FULL_STRINGS, lastCharacters, <<>>,
              filter(N_GRAMS, split(lastCharacters)))

C6_ScoreWithinHundred ==
    Returned =>
        \A k \in 1 .. Len(last.results) : last.results[k].score \in 0 .. 100


\* the index after delete(id) followed by add of the same document
Readded(id) ==
    LET d == deleteDoc(FULL_STRINGS, N_GRAMS, id)
    IN  addDoc(strict, caseSensitive, d.fs, d.ng, Doc(id, "text", FULL_STRINGS[id]))

\* what every query returns on the maps fs and ng
Answers(fs, ng) ==
    [q \in Queries |-> searchIndex(strict, caseSensitive, fs, ng, q)]

\* C7 as stated: deleting an indexed document and adding it again leaves
\* the result list of every query exactly as it was.
C7_ReaddKeepsEveryResultList ==
    \A id \in DOMAIN FULL_STRINGS :
        Answers(Readded(id).fs, Readded(id).ng) = Answers(FULL_STRINGS, N_GRAMS)

\* no entry of another document follows an entry of document id in a bucket
LastIn(ng, id) ==
    \A key \in DOMAIN ng :
        \A i, j \in 1 .. Len(ng[key]) :
            (i < j /\ ng[key][i].documentId = id) => ng[key][j].documentId = id

AddedLast(id) == LastIn(N_GRAMS, id)

Entries(ng, key) == {ng[key][k] : k \in 1 .. Len(ng[key])}

\* C7 amended: delete(d.id) followed by add(d) restores the CanonicalStore
\* and, in every bucket, the same entries, those of d now last; when the
\* entries of d were already last in their buckets both maps, and so the
\* result list of every query, are exactly as before.
C7_ReaddRestoresEntries ==
    \A id \in DOMAIN FULL_STRINGS :
        /\ Readded(id).error = "none"
        /\ Readded(id).fs = FULL_STRINGS
        /\ DOMAIN Readded(id).ng = DOMAIN N_GRAMS
        /\ LastIn(Readded(id).ng, id)
        /\ \A key \in DOMAIN N_GRAMS :
               /\ Entries(Readded(id).ng, key) = Entries(N_GRAMS, key)
               /\ Len(Readded(id).ng[key]) = Len(N_GRAMS[key])
        /\ AddedLast(id) =>
               /\ Readded(id).ng = N_GRAMS
               /\ Answers(Readded(id).fs, Readded(id).ng)
                      = Answers(FULL_STRINGS, N_GRAMS)

\* C7 witness: two documents share a bucket, and the entries of one of them
\* are last
C7_Witness ==
    \E id \in DOMAIN FULL_STRINGS :
        /\ AddedLast(id)
        /\ \E key \in DOMAIN N_GRAMS :
               /\ Len(N_GRAMS[key]) >= 2
               /\ N_GRAMS[key][1].documentId # id
               /\ N_GRAMS[key][Len(N_GRAMS[key])].documentId = id

\* the outcome of the caller running delete(document[idKey]) and, unless it
\* threw, add(document)
DeleteThenAdd(document) ==
    LET d == deleteDoc(FULL_STRINGS, N_GRAMS, document.id)
        a == addDoc(strict, caseSensitive, d.fs, d.ng, document)
    IN  IF d.error # "none"
        THEN [fs |-> d.fs, ng |-> d.ng, error |-> d.error]
        ELSE [fs |-> a.fs, ng |-> a.ng, error |-> a.error]

\* C8: update(doc) has the outcome of delete(doc[idKey]) followed by
\* add(doc): the same error or success and the same two maps.
C8_UpdateIsDeleteThenAdd ==
    \A document \in Documents :
        LET u == updateDoc(strict, caseSensitive, FULL_STRINGS, N_GRAMS, document)
        IN  /\ u.error = DeleteThenAdd(document).error
            /\ u.fs = DeleteThenAdd(document).fs
            /\ u.ng = DeleteThenAdd(document).ng

\* C8 witness: an update replaced a document while another one stayed
C8_Witness ==
    /\ last.op = "update"
    /\ last.effect = "stored"
    /\ Cardinality(DOMAIN FULL_STRINGS) = 2
    /\ N_GRAMS # <<>>

ShortDocuments ==
    {d \in Documents : d.kind = "text" /\ d.value # <<>>
                          /\ Len(NFKC(d.value)) < minLength}

C10_EntriesReferenceStoredDocuments ==
    \A key \in DOMAIN N_GRAMS :
        \A k \in 1 .. Len(N_GRAMS[key]) :
            N_GRAMS[key][k].documentId \in DOMAIN FULL_STRINGS

\* C10 witness: an update deleted its document and then failed in add, with
\* entries of another document left in the index
C10_Witness ==
    /\ last.op = "update"
    /\ last.error = "InvalidProperty"
    /\ last.id \notin DOMAIN FULL_STRINGS
    /\ N_GRAMS # <<>>

\* the ids some bucket of ng holds an entry of
Indexed(ng) ==
    UNION {{ng[key][k].documentId : k \in 1 .. Len(ng[key])} : key \in DOMAIN ng}

\* the ids some query returns on the maps fs and ng
Found(fs, ng) ==
    UNION {{Answers(fs, ng)[q].results[k].id :
                k \in 1 .. Len(Answers(fs, ng)[q].results)} : q \in Queries}

\* C11: after a successful delete(id) the id is absent from the
\* CanonicalStore, no bucket holds an entry of it, no bucket is empty, and
\* as long as the id is not added again no search returns it.
C11_DeletedIsGone ==
    /\ (last.op = "delete" /\ last.error = "none") =>
           last.id \notin DOMAIN FULL_STRINGS
    /\ \A key \in DOMAIN N_GRAMS : N_GRAMS[key] # <<>>
    /\ \A id \in Ids \ DOMAIN FULL_STRINGS :
           /\ id \notin Indexed(N_GRAMS)
           /\ id \notin Found(FULL_STRINGS, N_GRAMS)

\* C11 witness: a delete succeeded and left another document that a query
\* still returns
C11_Witness ==
    /\ last.op = "delete"
    /\ last.error = "none"
    /\ last.id \notin DOMAIN FULL_STRINGS
    /\ Found(FULL_STRINGS, N_GRAMS) # {}

\* the entries of bucket key in ng that are not of document id, in order
OthersIn(ng, key, id) ==
    SelectSeq(bucket(ng, key), LAMBDA e : e.documentId # id)

\* delete(id) keeps the stored value and, bucket by bucket, the entries
\* of every other document in their order
DeleteKeepsOthers(id) ==
    LET d == deleteDoc(FULL_STRINGS, N_GRAMS, id)
    IN  /\ \A other \in DOMAIN FULL_STRINGS \ {id} :
               other \in DOMAIN d.fs /\ d.fs[other] = FULL_STRINGS[other]
        /\ \A key \in DOMAIN N_GRAMS \cup DOMAIN d.ng :
               OthersIn(d.ng, key, id) = OthersIn(N_GRAMS, key, id)

\* the results of query q on fs and ng name no document id
NotAmong(fs, ng, q, id) ==
    LET r == searchIndex(strict, caseSensitive, fs, ng, q)
    IN  r.error = "none" /\ \A k \in 1 .. Len(r.results) : r.results[k].id # id

\* C12: delete(id) leaves the stored value and the entries (content and
\* order within each bucket) of every other document unchanged, so a search
\* that matches only other documents returns the same results before and
\* after the delete.
C12_DeleteKeepsOtherDocuments ==
    \A id \in DOMAIN FULL_STRINGS :
        /\ DeleteKeepsOthers(id)
        /\ \A q \in Queries :
               NotAmong(FULL_STRINGS, N_GRAMS, q, id) =>
                   searchIndex(strict, caseSensitive,
                               deleteDoc(FULL_STRINGS, N_GRAMS, id).fs,
                               deleteDoc(FULL_STRINGS, N_GRAMS, id).ng, q)
                       = searchIndex(strict, caseSensitive, FULL_STRINGS, N_GRAMS, q)

\* the documents with a non-empty text value
TextDocuments == {d \in Documents : d.kind = "text" /\ d.value # <<>>}

\* C13: add of a document with a non-empty text value whose id is already a
\* key of the CanonicalStore fails with DuplicateDocumentId and leaves the
\* CanonicalStore and the InvertedIndex exactly as they were.
C13_DuplicateAddChangesNothing ==
    /\ [](\A document \in TextDocuments :
             coerceId(document.id) \in DOMAIN FULL_STRINGS =>
                 LET r == addDoc(strict, caseSensitive, FULL_STRINGS, N_GRAMS, document)
                 IN  /\ r.error = "DuplicateDocumentId"
                     /\ r.fs = FULL_STRINGS
                     /\ r.ng = N_GRAMS)
    /\ [][(last'.op = "add" /\ last'.id \in DOMAIN FULL_STRINGS
              /\ last'.effect # "novalue" /\ last'.error # "InvalidProperty") =>
             /\ last'.error = "DuplicateDocumentId"
             /\ FULL_STRINGS' = FULL_STRINGS
             /\ N_GRAMS' = N_GRAMS]_vars

\* C13 witness: an add was refused as a duplicate while its id is indexed
\* and found by a query
C13_Witness ==
    /\ last.op = "add"
    /\ last.error = "DuplicateDocumentId"
    /\ last.id \in DOMAIN FULL_STRINGS
    /\ last.id \in Found(FULL_STRINGS, N_GRAMS)

\* C14: delete(id) and update(doc) fail with UnknownDocumentId when the id
\* is not a key of the CanonicalStore, and the maps are then unchanged: a
\* failing update does not add the document.
C14_UnknownIdChangesNothing ==
    /\ [](/\ \A id \in (Ids \cup {NullId}) \ DOMAIN FULL_STRINGS :
                LET r == deleteDoc(FULL_STRINGS, N_GRAMS, id)
                IN  /\ r.error = "UnknownDocumentId"
                    /\ r.fs = FULL_STRINGS
                    /\ r.ng = N_GRAMS
          /\ \A document \in Documents :
                coerceId(document.id) \notin DOMAIN FULL_STRINGS =>
                    LET r == updateDoc(strict, caseSensitive, FULL_STRINGS,
                                       N_GRAMS, document)
                    IN  /\ r.error = "UnknownDocumentId"
                        /\ r.fs = FULL_STRINGS
                        /\ r.ng = N_GRAMS
                        /\ coerceId(document.id) \notin DOMAIN r.fs
                        /\ coerceId(document.id) \notin Indexed(r.ng))
    /\ [][(last'.op \in {"delete", "update"}
              /\ last'.id \notin DOMAIN FULL_STRINGS) =>
             /\ last'.error = "UnknownDocumentId"
             /\ FULL_STRINGS' = FULL_STRINGS
             /\ N_GRAMS' = N_GRAMS]_vars

\* C14 witness: an update of an id that is not indexed was refused while
\* another document is indexed
C14_Witness ==
    /\ last.op = "update"
    /\ last.error = "UnknownDocumentId"
    /\ last.id \in Ids
    /\ last.id \notin DOMAIN FULL_STRINGS
    /\ N_GRAMS # <<>>

\* the documents update(doc) deletes without storing them again: a value
\* that is no text, no value at all, or a value below minLength
UnstorableDocuments ==
    {d \in Documents : d.kind # "text" \/ d.value = <<>>} \cup ShortDocuments

\* C15: update is not atomic.  For an indexed id, when the add step fails
\* (the value is present but no text) the error is surfaced and the
\* document ends up absent from the CanonicalStore and the InvertedIndex;
\* with an absent or too short value update succeeds and the document is
\* absent likewise.
C15_UpdateNotAtomic ==
    /\ \A document \in UnstorableDocuments :
           coerceId(document.id) \in DOMAIN FULL_STRINGS =>
               LET r == updateDoc(strict, caseSensitive, FULL_STRINGS,
                                  N_GRAMS, document)
               IN  /\ r.error = IF document.kind = "object"
                                THEN "InvalidProperty" ELSE "none"
                   /\ coerceId(document.id) \notin DOMAIN r.fs
                   /\ coerceId(document.id) \notin Indexed(r.ng)
                   /\ r.fs = deleteDoc(FULL_STRINGS, N_GRAMS, document.id).fs
                   /\ r.ng = deleteDoc(FULL_STRINGS, N_GRAMS, document.id).ng
    /\ (/\ last.op = "update"
        /\ last.effect \in {"novalue", "short"} \/ last.error = "InvalidProperty") =>
           /\ last.id \notin DOMAIN FULL_STRINGS
           /\ last.id \notin Indexed(N_GRAMS)

\* C15 witness: an update whose add step threw left the index empty, the
\* document it was called for having been the only one
C15_Witness ==
    /\ last.op = "update"
    /\ last.error = "InvalidProperty"
    /\ last.effect = "threw"
    /\ FULL_STRINGS = <<>>
    /\ N_GRAMS = <<>>

\* the queries search accepts: text of at least minLength normalized characters
ValidQueries ==
    {q \in Queries : q.kind = "text" /\ Len(NFKC(q.value)) >= minLength}

\* C16: after clear() the CanonicalStore and the InvertedIndex are empty:
\* every valid search returns an empty list, every delete fails with
\* UnknownDocumentId, and every id can be added without DuplicateDocumentId.
C16_ClearEmptiesIndex ==
    last.op = "clear" =>
        /\ FULL_STRINGS = <<>>
        /\ N_GRAMS = <<>>
        /\ \A q \in ValidQueries :
               searchIndex(strict, caseSensitive, FULL_STRINGS, N_GRAMS, q)
                   = [error |-> "none", results |-> <<>>]
        /\ \A id \in Ids :
               deleteDoc(FULL_STRINGS, N_GRAMS, id).error = "UnknownDocumentId"
        /\ \A id \in Ids, v \in LongValues :
               addDoc(strict, caseSensitive, FULL_STRINGS, N_GRAMS,
                      Doc(id, "text", v)).effect = "stored"

\* the text values of CoerceValues that add stores
CoerceLongValues == {v \in CoerceValues : Len(NFKC(v)) >= minLength}

\* C17: document identity is the coerced id.  For raw ids a and b with
\* coerceId(a) = coerceId(b), the document having been added with a: add
\* with b is refused as a duplicate, delete(b) removes that document,
\* update with b replaces its value, and the ids of the maps and of every
\* search result are coerced ids, never raw ones.
C17_IdentityIsCoercedId ==
    /\ DOMAIN FULL_STRINGS \subseteq Ids
    /\ Indexed(N_GRAMS) \subseteq Ids
    /\ last.op = "search" => ResultIds \subseteq Ids
    /\ last.op # "search" => last.id \in Ids \cup {NullId}
    /\ \A b \in RawIds :
           strOf(b) \in DOMAIN FULL_STRINGS =>
               /\ \A v \in CoerceLongValues :
                      LET r == addDoc(strict, caseSensitive, FULL_STRINGS, N_GRAMS,
                                      Doc(b, "text", v))
                      IN  /\ r.error = "DuplicateDocumentId"
                          /\ r.fs = FULL_STRINGS
                          /\ r.ng = N_GRAMS
               /\ LET r == deleteDoc(FULL_STRINGS, N_GRAMS, b)
                  IN  /\ r.error = "none"
                      /\ DOMAIN r.fs = DOMAIN FULL_STRINGS \ {strOf(b)}
                      /\ strOf(b) \notin Indexed(r.ng)
               /\ \A v \in CoerceLongValues :
                      LET r == updateDoc(strict, caseSensitive, FULL_STRINGS,
                                         N_GRAMS, Doc(b, "text", v))
                      IN  /\ r.error = "none"
                          /\ DOMAIN r.fs = DOMAIN FULL_STRINGS
                          /\ r.fs[strOf(b)] = v

\* C17 witness: on the index made with coerceId, a search returns both
\* documents under the str of their object ids
C17_Witness ==
    /\ coercing
    /\ last.op = "search"
    /\ last.error = "none"
    /\ ResultIds = Ids
    /\ \E id \in Ids : FULL_STRINGS[id] = <<116, 104, 101, 110>>

\* the queries search refuses: "he", and "en" + U+0303, which has three
\* code points and two characters once normalized
ShortQueries ==
    {Query("text", <<104, 101>>), Query("text", <<101, 110, 771>>)}

\* C18: search(query) fails with InvalidArgument when the query is no text
\* or has fewer than minLength normalized characters, and the failing call
\* leaves the index state unchanged.
C18_InvalidQueryRefused ==
    /\ [](\A q \in ShortQueries \cup {Query("object", <<>>)} :
             searchIndex(strict, caseSensitive, FULL_STRINGS, N_GRAMS, q)
                 = [error |-> "InvalidArgument", results |-> <<>>])
    /\ [][\A q \in ShortQueries \cup {Query("object", <<>>)} :
             Search(q) =>
                 /\ last'.error = "InvalidArgument"
                 /\ FULL_STRINGS' = FULL_STRINGS
                 /\ N_GRAMS' = N_GRAMS]_vars

\* C18 witness: a search with a query of three code points that normalizes
\* to two characters was refused while a document is indexed
C18_Witness ==
    /\ last.op = "search"
    /\ last.error = "InvalidArgument"
    /\ last.query = <<101, 110, 771>>
    /\ N_GRAMS # <<>>

\* the n-grams of the last query
lastSubqueries == splitWith(strict, caseSensitive, lastCharacters)

\* C19: a search with a text query of at least minLength normalized
\* characters completes without error and returns a list, an empty one when
\* no indexed document has any of its n-grams; also when the query has no
\* n-gram at all.
C19_ValidSearchReturnsList ==
    (last.op = "search" /\ Query("text", last.query) \in ValidQueries) =>
        /\ last.error = "none"
        /\ (\A k \in 1 .. Len(lastSubqueries) :
                lastSubqueries[k].substring \notin DOMAIN N_GRAMS) =>
               last.results = <<>>

\* a character sequence without its punctuation: the insignificant
\* characters that are no whitespace
Unpunctuated(characters) ==
    SelectSeq(characters, LAMBDA c : c \notin INSIGNIFICANT_CHARACTERS \ WHITESPACE)

\* what split yields for query q, positions left aside: the substring, the
\* ordinal and the tokenStart flag of every n-gram
Units(q) ==
    LET s == splitWith(strict, caseSensitive, NFKC(q.value))
    IN  [k \in 1 .. Len(s) |-> <<s[k].substring, s[k].index, s[k].tokenStart>>]

\* the document ids search returns for query q, each with its indices
Hits(q) ==
    LET r == searchIndex(strict, caseSensitive, FULL_STRINGS, N_GRAMS, q)
    IN  <<r.error, {<<r.results[k].id, r.results[k].indices>> :
                       k \in 1 .. Len(r.results)}>>

\* C20: punctuation is ignored.  Two valid queries that differ only by
\* insignificant characters that are no whitespace yield the same n-grams
\* (substring, ordinal, tokenStart) and the same document ids with the same
\* indices.
C20_PunctuationIgnored ==
    \A p, q \in ValidQueries :
        Unpunctuated(NFKC(p.value)) = Unpunctuated(NFKC(q.value)) =>
            /\ Units(p) = Units(q)
            /\ Hits(p) = Hits(q)

\* the significant characters of the stored value of document id from its
\* normalized position p on (p is 0-based)
SignificantFrom(id, p) ==
    Significant(SubSeq(NFKC(FULL_STRINGS[id]), p + 1, Len(NFKC(FULL_STRINGS[id]))))

\* the significant characters of the last query are a run of consecutive
\* significant characters of document id that starts at position p
RunAt(id, p) ==
    /\ normalise(NFKC(FULL_STRINGS[id])[p + 1]) \notin INSIGNIFICANT_CHARACTERS
    /\ Len(Significant(lastCharacters)) <= Len(SignificantFrom(id, p))
    /\ SubSeq(SignificantFrom(id, p), 1, Len(Significant(lastCharacters)))
           = Significant(lastCharacters)

\* search returned document id with index p
HasIndex(id, p) ==
    /\ last.error = "none"
    /\ id \in ResultIds
    /\ \E k \in 1 .. Len(ResultOf(id).indices) : ResultOf(id).indices[k] = p

\* C21: in strict mode search(q) returns document D with index p if and
\* only if the significant, case-folded characters of q (whitespace and
\* punctuation skipped) are a run of consecutive significant characters of D
\* that starts at normalized position p.
C21_StrictMatchesRuns ==
    (strict /\ last.op = "search" /\ Query("text", last.query) \in ValidQueries) =>
        \A id \in DOMAIN FULL_STRINGS :
            \A p \in 0 .. Len(NFKC(FULL_STRINGS[id])) - 1 :
                HasIndex(id, p) <=> RunAt(id, p)

\* the raw matches of the last query that are of document id, in match order
RawMatchesOf(id) ==
    SelectSeq(filter(N_GRAMS, lastSubqueries), LAMBDA m : m.documentId = id)

\* round(len(normalizedQuery) / len(normalizedStoredValue) * 100), halves up
ScoreOf(id) ==
    LET q == Len(lastCharacters)
        v == Len(NFKC(FULL_STRINGS[id]))
    IN  CHOOSE s \in 0 .. 100 * q : 2 * v * s <= 200 * q + v /\ 200 * q + v < 2 * v * (s + 1)

LowerCased(characters) == [k \in 1 .. Len(characters) |-> toLowerCase(characters[k])]

\* the buckets add makes of a value alone, under document id 0
IndexedAlone(value) ==
    pushAll(<<>>, 0, splitWith(strict, caseSensitive, NFKC(value)))

\* C23: with caseSensitive false two queries that differ only in letter
\* case return identical results, and a document is indexed identically
\* whatever the case of its letters; with caseSensitive true a query matches
\* only occurrences whose letters have exactly its case.
C23_CaseFolding ==
    /\ ~caseSensitive =>
           /\ \A p, q \in ValidQueries :
                  LowerCased(NFKC(p.value)) = LowerCased(NFKC(q.value)) =>
                      searchIndex(strict, caseSensitive, FULL_STRINGS, N_GRAMS, p)
                          = searchIndex(strict, caseSensitive, FULL_STRINGS, N_GRAMS, q)
           /\ \A v \in LongValues : IndexedAlone(v) = IndexedAlone(LowerCased(v))
           /\ \A key \in DOMAIN N_GRAMS : key = LowerCased(key)
    /\ (caseSensitive /\ Returned) =>
           \A id \in ResultIds :
               \A j \in 1 .. Len(ResultOf(id).indices) :
                   \E k \in 1 .. Len(lastSubqueries) :
                       /\ lastSubqueries[k].substring
                              = SubSeq(SignificantFrom(id, ResultOf(id).indices[j]),
                                       1, minLength)
                       /\ Occurs(lastSubqueries[k].substring, lastCharacters)
                              \/ Occurs(lastSubqueries[k].substring,
                                        Significant(lastCharacters))

\* C23 witness: with caseSensitive false the query "THE" returned a document
\* stored as "The hen"
C23_Witness ==
    /\ ~caseSensitive
    /\ Returned
    /\ last.query = <<84, 72, 69>>
    /\ \E id \in ResultIds : FULL_STRINGS[id] = <<84, 104, 101, 32, 104, 101, 110>>

\* the place of the first subquery after the first with tokenStart set, 0 if none
RECURSIVE RestartFrom(_, _)
RestartFrom(subqueries, k) ==
    IF k > Len(subqueries) THEN 0
    ELSE IF subqueries[k].tokenStart THEN k
    ELSE RestartFrom(subqueries, k + 1)

\* the candidates filter holds when it reaches that subquery: what the
\* subqueries before it, a single run, select
CandidatesAtRestart(subqueries) ==
    filter(N_GRAMS, SubSeq(subqueries, 1, RestartFrom(subqueries, 2) - 1))

\* C26: when filter reaches a subquery with tokenStart set, every entry it
\* returns for that and the later subqueries has the documentId of the first
\* remaining candidate, whatever the id (0 included).
C26_LaterTokensKeepDocument ==
    \A q \in ValidQueries :
        LET subqueries == splitWith(strict, caseSensitive, NFKC(q.value))
            candidates == CandidatesAtRestart(subqueries)
            returned   == filter(N_GRAMS, subqueries)
        IN  (RestartFrom(subqueries, 2) # 0 /\ candidates # <<>>) =>
                \A k \in Len(candidates) + 1 .. Len(returned) :
                    returned[k].documentId = candidates[1].documentId

\* C30: search never changes the index.  For every query, valid or
\* failing, the CanonicalStore and the InvertedIndex (keys, entries and
\* their order) are the same before and after the call, and the same search
\* made again gives the same result list.
C30_SearchChangesNothing ==
    [][last'.op = "search" =>
          /\ FULL_STRINGS' = FULL_STRINGS
          /\ N_GRAMS' = N_GRAMS
          /\ \E q \in Queries :
                 /\ q.value = last'.query
                 /\ searchIndex(strict', caseSensitive', FULL_STRINGS', N_GRAMS', q)
                        = [error |-> last'.error, results |-> last'.results]]_vars

\* C30 witness: a search returned two documents, one of them at two indices
C30_Witness ==
    /\ Returned
    /\ Len(last.results) = 2
    /\ \E k \in 1 .. 2 : Len(last.results[k].indices) = 2

\* C24 as stated: an id is a key of FULL_STRINGS exactly when the last
\* successful add or update for it, not followed by a delete or a clear,
\* carried a text of at least minLength normalized characters; the stored
\* value is that text as given.
C24_KeyIffLastCarriedText ==
    \A id \in Ids :
        /\ id \in DOMAIN FULL_STRINGS <=> history.carried[id] # <<>>
        /\ id \in DOMAIN FULL_STRINGS =>
               /\ FULL_STRINGS[id] = history.carried[id]
               /\ Len(NFKC(FULL_STRINGS[id])) >= minLength

\* C24 amended: an add of an empty or absent value changes nothing and does
\* not count. An id is a key of FULL_STRINGS exactly when the last successful
\* add or update that carried a value for it, not followed by a delete (the
\* one a failing update performs included) or a clear, carried a text of at
\* least minLength normalized characters; the stored value is that text as
\* given, and every stored value has at least minLength normalized characters.
C24_KeyIffLastKeptText ==
    \A id \in Ids :
        /\ id \in DOMAIN FULL_STRINGS <=> history.kept[id] # <<>>
        /\ id \in DOMAIN FULL_STRINGS =>
               /\ FULL_STRINGS[id] = history.kept[id]
               /\ Len(NFKC(FULL_STRINGS[id])) >= minLength

\* a text not in normal form is stored as given, next to an id whose short
\* value was accepted and not stored
C24_Witness ==
    /\ last.op = "update"
    /\ last.effect = "short"
    /\ \E id \in DOMAIN FULL_STRINGS :
           /\ id # last.id
           /\ FULL_STRINGS[id] # NFKC(FULL_STRINGS[id])

\* the place of id in the order the stored documents were added
PlaceIn(order, id) == CHOOSE k \in 1 .. Len(order) : order[k] = id

\* entry a stands before entry b in a bucket
Before(a, b) ==
    IF a.documentId = b.documentId
    THEN a.index < b.index
    ELSE PlaceIn(history.order, a.documentId) < PlaceIn(history.order, b.documentId)

\* every bucket lists the documents in the order they were added, and the
\* entries of one document by ascending index
BucketsInOrder ==
    \A key \in DOMAIN N_GRAMS :
        /\ \A k \in 1 .. Len(N_GRAMS[key]) :
               \E p \in 1 .. Len(history.order) :
                   history.order[p] = N_GRAMS[key][k].documentId
        /\ \A i \in 1 .. Len(N_GRAMS[key]) : \A j \in (i + 1) .. Len(N_GRAMS[key]) :
               Before(N_GRAMS[key][i], N_GRAMS[key][j])

\* results of equal score and equal first index stand in the order their
\* documents were added
TiesInOrder ==
    Returned =>
        \A i \in 1 .. Len(last.results) : \A j \in (i + 1) .. Len(last.results) :
            (/\ last.results[i].score = last.results[j].score
             /\ last.results[i].indices[1] = last.results[j].indices[1]) =>
                PlaceIn(history.order, last.results[i].id)
                    < PlaceIn(history.order, last.results[j].id)

\* C29: the entries of every bucket are ordered by the order in which their
\* documents were last added and, within one document, by ascending index;
\* results with equal score and equal first index appear in that order.
C29_InsertionOrder == BucketsInOrder /\ TiesInOrder

\* split has been applied to the sequence last.query
SplitDone == last.op = "split"

\* the characters of the sequence from position p to position e (0-based)
Span(characters, p, e) == SubSeq(characters, p + 1, e + 1)

\* the positions where a window that starts at position p is complete: the
\* span from p to there holds minLength significant characters and ends with
\* one.  There is at most one.
WindowEnds(characters, p) ==
    {e \in p .. Len(characters) - 1 :
        /\ normalise(characters[e + 1]) \notin INSIGNIFICANT_CHARACTERS
        /\ Len(Significant(Span(characters, p, e))) = minLength}

\* the span from p to e holds a whitespace character
MeetsWhitespace(characters, p, e) ==
    \E k \in p .. e : characters[k + 1] \in WHITESPACE

\* a unit starts at position p when split is not strict: the character there
\* is significant and the window completes before any whitespace
NonStrictStart(characters, p) ==
    /\ normalise(characters[p + 1]) \notin INSIGNIFICANT_CHARACTERS
    /\ \E e \in WindowEnds(characters, p) : ~MeetsWhitespace(characters, p, e)

\* a unit starts at position p when split is strict: the character there is
\* significant and minLength significant characters remain
StrictStart(characters, p) ==
    /\ normalise(characters[p + 1]) \notin INSIGNIFICANT_CHARACTERS
    /\ WindowEnds(characters, p) # {}

UnitPositions == {last.results[k].position : k \in 1 .. Len(last.results)}

\* C27: when not strict, no unit of split spans a whitespace character: a
\* window that meets whitespace before it has minLength significant
\* characters gives no unit, the window of the next position is tried, and
\* the indices of the units stay consecutive across the token boundaries.
C27_NoUnitSpansWhitespace ==
    (SplitDone /\ ~strict) =>
        /\ \A k \in 1 .. Len(last.results) :
               /\ last.results[k].index = k - 1
               /\ \E e \in WindowEnds(last.query, last.results[k].position) :
                      /\ ~MeetsWhitespace(last.query, last.results[k].position, e)
                      /\ last.results[k].substring
                             = Significant(Span(last.query, last.results[k].position, e))
        /\ \A p \in 0 .. Len(last.query) - 1 :
               p \in UnitPositions <=> NonStrictStart(last.query, p)

\* C27 witness: units on both sides of a whitespace character, after a
\* window that met it was dropped
C27_Witness ==
    /\ SplitDone
    /\ ~strict
    /\ Len(last.results) >= 2
    /\ \E p \in 0 .. Len(last.query) - 1 :
           /\ p \notin UnitPositions
           /\ StrictStart(last.query, p)
           /\ \E k \in 1 .. Len(last.results) - 1 :
                  /\ last.results[k].position < p
                  /\ last.results[k + 1].position > p

\* C28: for every sequence, the units of split have the indices 0, 1, ...,
\* n-1 in order, each substring is minLength significant folded characters,
\* each position is the place in the sequence of the unit's first
\* character, which is significant, and the positions increase strictly.
C28_UnitsWellFormed ==
    SplitDone =>
        /\ \A k \in 1 .. Len(last.results) :
               /\ last.results[k].index = k - 1
               /\ last.results[k].position \in 0 .. Len(last.query) - 1
               /\ normalise(last.query[last.results[k].position + 1])
                      \notin INSIGNIFICANT_CHARACTERS
               /\ Len(last.results[k].substring) = minLength
               /\ \A c \in 1 .. Len(last.results[k].substring) :
                      /\ last.results[k].substring[c] \notin INSIGNIFICANT_CHARACTERS
                      /\ last.results[k].substring[c]
                             = normalise(last.results[k].substring[c])
               /\ last.results[k].substring[1]
                      = normalise(last.query[last.results[k].position + 1])
               /\ \E e \in WindowEnds(last.query, last.results[k].position) :
                      last.results[k].substring
                          = Significant(Span(last.query, last.results[k].position, e))
        /\ \A k \in 1 .. Len(last.results) - 1 :
               last.results[k].position < last.results[k + 1].position

\* C28 witness: a unit whose position is ahead of its index, with a folded
\* capital in its substring
C28_Witness ==
    /\ SplitDone
    /\ ~caseSensitive
    /\ \E k \in 1 .. Len(last.results) :
           /\ last.results[k].position > last.results[k].index
           /\ \E c \in 1 .. minLength : last.results[k].substring[c] = 98
           /\ Len(last.results) > k

\* the characters of a sequence that are significant or whitespace,
\* case-folded as configured
RECURSIVE WithWhitespace(_)
WithWhitespace(characters) ==
    IF characters = <<>> THEN <<>>
    ELSE IF /\ normalise(Head(characters)) \in INSIGNIFICANT_CHARACTERS
            /\ Head(characters) \notin WHITESPACE
         THEN WithWhitespace(Tail(characters))
         ELSE <<normalise(Head(characters))>> \o WithWhitespace(Tail(characters))

\* C25 as stated: in strict mode a whitespace character is a normal
\* character of the window, not skipped: the substring of a unit is the
\* first minLength characters from its position that are significant or
\* whitespace.
C25_StrictWindowKeepsWhitespace ==
    (SplitDone /\ strict) =>
        \A k \in 1 .. Len(last.results) :
            LET w == WithWhitespace(Span(last.query, last.results[k].position,
                                         Len(last.query) - 1))
            IN  /\ Len(w) >= minLength
                /\ last.results[k].substring = SubSeq(w, 1, minLength)

\* C25 amended: in strict mode split skips a whitespace character as it
\* skips every insignificant character: it is in no substring, does not count
\* toward minLength and does not end the window.  A unit starts at every
\* position that holds a significant character with minLength significant
\* characters from there on, and its substring is those characters, folded.
C25_StrictWindowSkipsWhitespace ==
    (SplitDone /\ strict) =>
        /\ \A k \in 1 .. Len(last.results) :
               /\ \A c \in 1 .. Len(last.results[k].substring) :
                      last.results[k].substring[c] \notin WHITESPACE
               /\ \E e \in WindowEnds(last.query, last.results[k].position) :
                      last.results[k].substring
                          = Significant(Span(last.query, last.results[k].position, e))
        /\ \A p \in 0 .. Len(last.query) - 1 :
               p \in UnitPositions <=> StrictStart(last.query, p)

\* C25 witness: a strict unit whose window runs over a whitespace character
C25_Witness ==
    /\ SplitDone
    /\ strict
    /\ \E k \in 1 .. Len(last.results) :
           \E e \in WindowEnds(last.query, last.results[k].position) :
               MeetsWhitespace(last.query, last.results[k].position, e)

=============================================================================
